---- MODULE Spec2Model ----
(***************************************************************************)
(* Front end of SelfPartioningTranspilerV5: src/lexer/lexer.py (Lexer)     *)
(* and src/parser/parser.py (Parser), as a state machine.                  *)
(*                                                                         *)
(* A source text is a sequence of characters; a character is a one-letter  *)
(* string, except "sup2", which stands for U+00B2 SUPERSCRIPT TWO, a       *)
(* character for which str.isdigit() is True and str.isdecimal() is False. *)
(* The Lexer's cursor is pos/line/col, the Parser's cursor is ppos.        *)
(***************************************************************************)
EXTENDS Integers, Sequences, FiniteSets, TLC

VARIABLES
    code,       \* Lexer.code, a sequence of characters
    pos,        \* Lexer.pos
    line,       \* Lexer.line
    col,        \* Lexer.col
    tokens,     \* the list tokenize() builds and returns
    lpc,        \* where the Lexer's control is
    start,      \* local start of _read_identifier_or_keyword / _read_number
    start_col,  \* local start_col of the _read_* methods
    has_dot,    \* local has_dot of _read_number
    quote,      \* local quote of _read_string
    buf,        \* local buf of _read_string, joined
    attr,       \* history: attr[i] lists the scans that consumed code[i]
    passStart,  \* history: pos when the current pass of tokenize's loop began
    ppos,       \* Parser.pos
    stack,      \* the Parser's call stack, innermost frame last
    ret,        \* the value the last returned Parser method handed back
    pstatus,    \* "idle", "running", "returned", "SyntaxError", "AttributeError"
    program,    \* the Program parse() returned
    errtok,     \* the token named by the SyntaxError message
    again,      \* history: which of tokenize() and parse() was called twice
    first       \* history: what the first tokenize() and parse() returned

useVars == <<again, first>>
lexVars == <<code, pos, line, col, tokens, lpc, start, start_col, has_dot,
             quote, buf, attr, passStart, useVars>>
lexLocals == <<start, start_col, has_dot, quote, buf>>
parVars == <<ppos, stack, ret, pstatus, program, errtok, useVars>>
vars == <<code, pos, line, col, tokens, lpc, start, start_col, has_dot,
          quote, buf, attr, passStart, ppos, stack, ret, pstatus, program,
          errtok, again, first>>

(***************************************************************************)
(* Bounds of the checked inputs.                                           *)
(***************************************************************************)
MaxLen == 3
MaxStrLen == 3
MaxWords == 3
MaxLines == 2

(***************************************************************************)
(* tokenizer_rules.py                                                      *)
(***************************************************************************)
KEYWORDS ==
    {"def", "return", "if", "elif", "else", "for", "while",
     "import", "from", "as", "class", "with", "try", "except",
     "finally", "raise", "yield", "lambda", "pass", "break", "continue",
     "async", "await", "global", "nonlocal"}

OPERATORS ==
    {"+", "-", "*", "/", "%", "//", "**",
     "=", "==", "!=", "<", ">", "<=", ">=", "+=", "-=", "*=", "/=",
     "and", "or", "not", "|", "&", "^", "~", "<<", ">>"}

DELIMITERS == {"(", ")", "[", "]", "{", "}", ",", ":", ".", ";"}

(***************************************************************************)
(* Python's character classes, on the characters of the model: lowercase   *)
(* ASCII letters, ASCII digits, and "sup2".                                *)
(***************************************************************************)
Letters ==
    {"a", "b", "c", "d", "e", "f", "g", "h", "i", "j", "k", "l", "m",
     "n", "o", "p", "q", "r", "s", "t", "u", "v", "w", "x", "y", "z"}
DecimalDigits == {"0", "1", "2", "3", "4", "5", "6", "7", "8", "9"}
DigitLike == {"sup2"}
NoChar == "None"

isalpha(c) == c \in Letters
isdecimal(c) == c \in DecimalDigits
isdigit(c) == c \in DecimalDigits \cup DigitLike
isalnum(c) == isalpha(c) \/ isdigit(c)

RECURSIVE join(_)
join(s) == IF s = <<>> THEN "" ELSE Head(s) \o join(Tail(s))

(***************************************************************************)
(* Values: Python objects carried by tokens and AST nodes.                 *)
(***************************************************************************)
None == [k |-> "None"]
StrV(s) == [k |-> "str", v |-> s]
IntV(n) == [k |-> "int", v |-> n]
FloatV(n, d) == [k |-> "float", v |-> <<n, d>>]
\* a Python list, as a method returns it
ListV(l) == [k |-> "list", v |-> l]
\* Python's  value == "..."  against a string literal
ValueEq(val, s) == val.k = "str" /\ val.v = s

Token(type, value, ln, cl) ==
    [type |-> type, value |-> value, line |-> ln, col |-> cl]

DigitVal(c) ==
    CASE c = "0" -> 0 [] c = "1" -> 1 [] c = "2" -> 2 [] c = "3" -> 3
      [] c = "4" -> 4 [] c = "5" -> 5 [] c = "6" -> 6 [] c = "7" -> 7
      [] c = "8" -> 8 [] c = "9" -> 9

RECURSIVE IntOf(_)
IntOf(ds) ==
    IF ds = <<>> THEN 0
    ELSE 10 * IntOf(SubSeq(ds, 1, Len(ds) - 1)) + DigitVal(ds[Len(ds)])

RECURSIVE Pow10(_)
Pow10(n) == IF n = 0 THEN 1 ELSE 10 * Pow10(n - 1)

RECURSIVE GCD(_, _)
GCD(a, b) == IF b = 0 THEN a ELSE GCD(b, a % b)

\* int(txt): ValueError unless every character is a decimal digit
int_raises(txt) == \E i \in 1..Len(txt) : ~isdecimal(txt[i])
int(txt) == IntV(IntOf(txt))

\* float(txt) for txt = digits with one ".": ValueError on a non-decimal
\* digit; the value is kept as a reduced fraction
float_raises(txt) == \E i \in 1..Len(txt) : txt[i] # "." /\ ~isdecimal(txt[i])
float(txt) ==
    LET IsDig(c) == c # "."
        digs == SelectSeq(txt, IsDig)
        dot == CHOOSE i \in 1..Len(txt) : txt[i] = "."
        n == IntOf(digs)
        d == Pow10(Len(txt) - dot)
        g == GCD(d, n)
    IN  FloatV(n \div g, d \div g)

(***************************************************************************)
(* Lexer                                                                   *)
(***************************************************************************)
N == Len(code)

Lexer_peek(n) == IF pos + n < N THEN code[pos + n + 1] ELSE NoChar

\* a bug: a newline does not reset col
advance_once_keep_col(s) ==
    IF s.pos < N
    THEN LET c == code[s.pos + 1]
         IN  IF c = "\n"
             THEN [pos |-> s.pos + 1, line |-> s.line + 1, col |-> s.col + 1]
             ELSE [pos |-> s.pos + 1, line |-> s.line, col |-> s.col + 1]
    ELSE s

\* one iteration of the loop of _advance, on a cursor [pos, line, col]
advance_once(s) ==
    IF s.pos < N
    THEN LET c == code[s.pos + 1]
         IN  IF c = "\n"
             THEN [pos |-> s.pos + 1, line |-> s.line + 1, col |-> 0]
             ELSE [pos |-> s.pos + 1, line |-> s.line, col |-> s.col + 1]
    ELSE s

RECURSIVE advance_n(_, _)
advance_n(s, n) == IF n = 0 THEN s ELSE advance_n(advance_once(s), n - 1)

\* self._advance(n), called by the scan `owner` (0: a skipped run,
\* k > 0: the scan of the k-th token)
Lexer_advance(n, owner) ==
    LET s == advance_n([pos |-> pos, line |-> line, col |-> col], n)
    IN  /\ pos' = s.pos
        /\ line' = s.line
        /\ col' = s.col
        /\ attr' = [i \in 1..N |->
                      IF pos < i /\ i <= s.pos THEN Append(attr[i], owner)
                      ELSE attr[i]]

NoAdvance == UNCHANGED <<pos, line, col, attr>>
ThisToken == Len(tokens) + 1

\* tokens.append(tok); continue
Emit(tok) == tokens' = Append(tokens, tok) /\ lpc' = "loop"

\* a bug: the escaped character is taken as it is
esc_map_literal(c) == c

esc_map(c) ==
    CASE c = "n" -> "\n" [] c = "t" -> "\t" [] c = "r" -> "\r"
      [] c = "'" -> "'" [] c = "\"" -> "\"" [] c = "\\" -> "\\"
esc_keys == {"n", "t", "r", "'", "\"", "\\"}

\* a bug: the comment runs through the newline that ends it
comment_end_eof_only(c) == c = NoChar

\* the comment loop stops at:  self._peek() in (None, "\n")
comment_end(c) == c \in {NoChar, "\n"}

_skip_whitespace_and_comments ==
    /\ lpc \in {"skip", "comment"}
    /\ LET c == Lexer_peek(0) IN
       IF lpc = "skip"
       THEN CASE c = NoChar -> lpc' = "dispatch" /\ NoAdvance
              [] c \in {" ", "\t", "\r"} -> lpc' = "skip" /\ Lexer_advance(1, 0)
              [] c = "\n" -> lpc' = "dispatch" /\ NoAdvance
              [] c = "#" -> lpc' = "comment" /\ NoAdvance
              [] OTHER -> lpc' = "dispatch" /\ NoAdvance
       ELSE IF ~comment_end(c)
            THEN lpc' = "comment" /\ Lexer_advance(1, 0)
            ELSE lpc' = "skip" /\ NoAdvance
    /\ UNCHANGED <<code, tokens, lexLocals, passStart, parVars>>

_read_identifier_or_keyword ==
    /\ lpc \in {"ident", "ident_loop"}
    /\ IF lpc = "ident"
       THEN /\ start_col' = col
            /\ start' = pos
            /\ lpc' = "ident_loop"
            /\ NoAdvance
            /\ UNCHANGED tokens
       ELSE LET c == Lexer_peek(0) IN
            IF c = NoChar \/ ~(isalnum(c) \/ c = "_")
            THEN LET txt == join(SubSeq(code, start + 1, pos))
                     t == IF txt \in KEYWORDS THEN "KEYWORD"
                          ELSE IF txt \in OPERATORS THEN "OP"
                          ELSE "IDENT"
                 IN  /\ Emit(Token(t, StrV(txt), line, start_col))
                     /\ start' = 0 /\ start_col' = 0
                     /\ NoAdvance
            ELSE /\ Lexer_advance(1, ThisToken)
                 /\ UNCHANGED <<tokens, lpc, start, start_col>>
    /\ UNCHANGED <<code, has_dot, quote, buf, passStart, parVars>>

_read_number ==
    /\ lpc \in {"number", "number_loop"}
    /\ IF lpc = "number"
       THEN /\ start_col' = col
            /\ start' = pos
            /\ has_dot' = FALSE
            /\ lpc' = "number_loop"
            /\ NoAdvance
            /\ UNCHANGED tokens
       ELSE LET c == Lexer_peek(0) IN
            IF c # NoChar /\ c = "." /\ ~has_dot
            THEN /\ has_dot' = TRUE
                 /\ Lexer_advance(1, ThisToken)
                 /\ UNCHANGED <<tokens, lpc, start, start_col>>
            ELSE IF c # NoChar /\ isdigit(c)
            THEN /\ Lexer_advance(1, ThisToken)
                 /\ UNCHANGED <<tokens, lpc, start, start_col, has_dot>>
            ELSE LET txt == SubSeq(code, start + 1, pos)
                     raises == IF has_dot THEN float_raises(txt)
                               ELSE int_raises(txt)
                 IN  /\ IF raises
                        THEN lpc' = "ValueError" /\ UNCHANGED tokens
                        ELSE Emit(Token("NUMBER",
                                        IF has_dot THEN float(txt) ELSE int(txt),
                                        line, start_col))
                     /\ start' = 0 /\ start_col' = 0 /\ has_dot' = FALSE
                     /\ NoAdvance
    /\ UNCHANGED <<code, quote, buf, passStart, parVars>>

\* a bug: at the end of the input the unterminated string is dropped
_read_string_unterminated_lost ==
    /\ lpc \in {"string", "string_loop", "string_esc"}
    /\ LET c == Lexer_peek(0)
           finish == /\ Emit(Token("STRING", StrV(buf), line, start_col))
                     /\ start_col' = 0 /\ quote' = NoChar /\ buf' = ""
       IN  CASE lpc = "string" ->
                  /\ quote' = c
                  /\ start_col' = col
                  /\ Lexer_advance(1, ThisToken)
                  /\ buf' = ""
                  /\ lpc' = "string_loop"
                  /\ UNCHANGED tokens
             [] lpc = "string_loop" ->
                  IF c = NoChar
                  THEN /\ lpc' = "loop"
                       /\ start_col' = 0 /\ quote' = NoChar /\ buf' = ""
                       /\ NoAdvance
                       /\ UNCHANGED tokens
                  ELSE IF c = "\\"
                  THEN /\ Lexer_advance(1, ThisToken)
                       /\ lpc' = "string_esc"
                       /\ UNCHANGED <<tokens, start_col, quote, buf>>
                  ELSE IF c = quote
                  THEN finish /\ Lexer_advance(1, ThisToken)
                  ELSE /\ buf' = buf \o c
                       /\ Lexer_advance(1, ThisToken)
                       /\ UNCHANGED <<tokens, lpc, start_col, quote>>
             [] lpc = "string_esc" ->
                  IF c = NoChar THEN finish /\ NoAdvance
                  ELSE /\ buf' = buf \o (IF c \in esc_keys THEN esc_map(c) ELSE c)
                       /\ Lexer_advance(1, ThisToken)
                       /\ lpc' = "string_loop"
                       /\ UNCHANGED <<tokens, start_col, quote>>
    /\ UNCHANGED <<code, start, has_dot, passStart, parVars>>

_read_string ==
    /\ lpc \in {"string", "string_loop", "string_esc"}
    /\ LET c == Lexer_peek(0)
           finish == /\ Emit(Token("STRING", StrV(buf), line, start_col))
                     /\ start_col' = 0 /\ quote' = NoChar /\ buf' = ""
       IN  CASE lpc = "string" ->
                  /\ quote' = c
                  /\ start_col' = col
                  /\ Lexer_advance(1, ThisToken)
                  /\ buf' = ""
                  /\ lpc' = "string_loop"
                  /\ UNCHANGED tokens
             [] lpc = "string_loop" ->
                  IF c = NoChar THEN finish /\ NoAdvance
                  ELSE IF c = "\\"
                  THEN /\ Lexer_advance(1, ThisToken)
                       /\ lpc' = "string_esc"
                       /\ UNCHANGED <<tokens, start_col, quote, buf>>
                  ELSE IF c = quote
                  THEN finish /\ Lexer_advance(1, ThisToken)
                  ELSE /\ buf' = buf \o c
                       /\ Lexer_advance(1, ThisToken)
                       /\ UNCHANGED <<tokens, lpc, start_col, quote>>
             [] lpc = "string_esc" ->
                  IF c = NoChar THEN finish /\ NoAdvance
                  ELSE /\ buf' = buf \o (IF c \in esc_keys THEN esc_map(c) ELSE c)
                       /\ Lexer_advance(1, ThisToken)
                       /\ lpc' = "string_loop"
                       /\ UNCHANGED <<tokens, start_col, quote>>
    /\ UNCHANGED <<code, start, has_dot, passStart, parVars>>

\* the window "".join(self._peek(i) or "" for i in range(length))
window(length) ==
    join([i \in 1..length |->
            IF Lexer_peek(i - 1) = NoChar THEN "" ELSE Lexer_peek(i - 1)])

\* a bug: the one-character operator is tried first
op_match_shortest ==
    IF Lexer_peek(0) \in OPERATORS THEN 1
    ELSE IF window(3) \in OPERATORS THEN 3
    ELSE IF window(2) \in OPERATORS THEN 2
    ELSE 0

\* the length of the operator _try_multi_char_operator matches, 0 for None
op_match ==
    IF window(3) \in OPERATORS THEN 3
    ELSE IF window(2) \in OPERATORS THEN 2
    ELSE IF Lexer_peek(0) \in OPERATORS THEN 1
    ELSE 0

_try_multi_char_operator ==
    /\ lpc = "op"
    /\ IF op_match = 0
       THEN lpc' = "unknown" /\ NoAdvance /\ UNCHANGED tokens
       ELSE /\ Emit(Token("OP", StrV(window(op_match)), line, col))
            /\ Lexer_advance(op_match, ThisToken)
    /\ UNCHANGED <<code, lexLocals, passStart, parVars>>

\* tokens: List[Token] = []
tokenize_start ==
    /\ lpc = "idle"
    /\ tokens' = <<>>
    /\ lpc' = "loop"
    /\ NoAdvance
    /\ UNCHANGED <<code, lexLocals, passStart, parVars>>

\* while self.pos < self.N: self._skip_whitespace_and_comments()
tokenize_loop ==
    /\ lpc = "loop"
    /\ IF pos < N
       THEN lpc' = "skip" /\ passStart' = pos
       ELSE lpc' = "eof" /\ UNCHANGED passStart
    /\ NoAdvance
    /\ UNCHANGED <<code, tokens, lexLocals, parVars>>

\* c = self._peek() and the branches on c
tokenize_dispatch ==
    /\ lpc = "dispatch"
    /\ LET c == Lexer_peek(0) IN
       IF c = NoChar
       THEN lpc' = "eof" /\ NoAdvance /\ UNCHANGED tokens
       ELSE IF c = "\n"
       THEN /\ Emit(Token("NEWLINE", StrV("\\n"), line, col))
            /\ Lexer_advance(1, ThisToken)
       ELSE IF isalpha(c) \/ c = "_"
       THEN lpc' = "ident" /\ NoAdvance /\ UNCHANGED tokens
       ELSE IF isdigit(c)
       THEN lpc' = "number" /\ NoAdvance /\ UNCHANGED tokens
       ELSE IF c \in {"'", "\""}
       THEN lpc' = "string" /\ NoAdvance /\ UNCHANGED tokens
       ELSE IF c \in DELIMITERS
       THEN /\ Emit(Token("DELIM", StrV(c), line, col))
            /\ Lexer_advance(1, ThisToken)
       ELSE lpc' = "op" /\ NoAdvance /\ UNCHANGED tokens
    /\ UNCHANGED <<code, lexLocals, passStart, parVars>>

\* unknown char: emit it as UNKNOWN token and advance
tokenize_unknown ==
    /\ lpc = "unknown"
    /\ Emit(Token("UNKNOWN", StrV(Lexer_peek(0)), line, col))
    /\ Lexer_advance(1, ThisToken)
    /\ UNCHANGED <<code, lexLocals, passStart, parVars>>

\* a bug: tokenize returns the list without the EOF token
tokenize_eof_missing ==
    /\ lpc = "eof"
    /\ tokens' = tokens
    /\ lpc' = "returned"
    /\ NoAdvance
    /\ UNCHANGED <<code, lexLocals, passStart, parVars>>

\* tokens.append(Token("EOF", None, self.line, self.col)); return tokens
tokenize_eof ==
    /\ lpc = "eof"
    /\ tokens' = Append(tokens, Token("EOF", None, line, col))
    /\ lpc' = "returned"
    /\ NoAdvance
    /\ UNCHANGED <<code, lexLocals, passStart, parVars>>

tokenize ==
    \/ tokenize_start
    \/ tokenize_loop
    \/ tokenize_dispatch
    \/ tokenize_unknown
    \/ tokenize_eof

LexNext ==
    \/ tokenize
    \/ _skip_whitespace_and_comments
    \/ _read_identifier_or_keyword
    \/ _read_number
    \/ _read_string
    \/ _try_multi_char_operator

(***************************************************************************)
(* ast_nodes.py.  An expression value is a token value or a Call.          *)
(***************************************************************************)
Program(body) == [node |-> "Program", body |-> body]
FunctionDef(name, args, body) ==
    [node |-> "FunctionDef", name |-> name, args |-> args, body |-> body]
Assign(target, value) == [node |-> "Assign", target |-> target, value |-> value]
Return(value) == [node |-> "Return", value |-> value]
Expression(value) == [node |-> "Expression", value |-> value]
Call(func, args) == [k |-> "Call", func |-> func, args |-> args]
If(condition, body, orelse) ==
    [node |-> "If", condition |-> condition, body |-> body, orelse |-> orelse]
For(var, iter, body) == [node |-> "For", var |-> var, iter |-> iter, body |-> body]
While(condition, body) == [node |-> "While", condition |-> condition, body |-> body]

(***************************************************************************)
(* Parser.  A frame of the call stack is [fn, pc, locals...]; a method's   *)
(* action takes one step of the innermost frame.  A call pushes the        *)
(* callee's frame in the step that evaluates the call.                     *)
(***************************************************************************)
Top == stack[Len(stack)]
Below == SubSeq(stack, 1, Len(stack) - 1)
Running(fn) == pstatus = "running" /\ stack # <<>> /\ Top.fn = fn

\* Parser.peek: None past either end of the token list
peek(n) ==
    LET i == ppos + n
    IN  IF 0 <= i /\ i < Len(tokens) THEN tokens[i + 1] ELSE None

\* the frame goes on at `f`
Goto(f) == stack' = Append(Below, f) /\ UNCHANGED <<ret, pstatus, program, errtok>>
\* the frame goes on at `f` once the callee `g` has returned
Invoke(f, g) ==
    /\ stack' = Append(Append(Below, f), g)
    /\ UNCHANGED <<ret, pstatus, program, errtok>>
\* return v
ReturnValue(v) ==
    /\ stack' = Below
    /\ ret' = v
    /\ UNCHANGED <<pstatus, program, errtok>>
\* raise; tok is the token the message names
Raise(exc, tok) ==
    /\ pstatus' = exc
    /\ errtok' = tok
    /\ UNCHANGED <<ppos, stack, ret, program>>

\* Parser.advance moves the cursor also when there is no token
advance == ppos' = ppos + 1
stay == UNCHANGED ppos

\* the test of Parser.expect
expect_ok(type_) == peek(0) # None /\ peek(0).type = type_
\* a bug: expect consumes the token it rejects
expect_consumes_rejected(type_, f) ==
    IF expect_ok(type_) THEN advance /\ Goto(f)
    ELSE /\ pstatus' = "SyntaxError"
         /\ errtok' = peek(0)
         /\ advance
         /\ UNCHANGED <<stack, ret, program>>

\* self.expect(type_), the frame going on at `f`
expect(type_, f) ==
    IF expect_ok(type_) THEN advance /\ Goto(f)
    ELSE Raise("SyntaxError", peek(0))
\* the test of Parser.match
match_ok(types) == peek(0) # None /\ peek(0).type \in types

expr_frame == [fn |-> "parse_expression", pc |-> "start", ident |-> None, args |-> <<>>]
block_frame == [fn |-> "parse_block", pc |-> "loop", body |-> <<>>]
statement_frame == [fn |-> "parse_statement", pc |-> "start"]

\* a bug: match tests the NEWLINE token and does not consume it
skip_newlines_then_block_no_advance(f) ==
    IF match_ok({"NEWLINE"}) THEN stay /\ Goto(Top)
    ELSE stay /\ Invoke(f, block_frame)

\* while self.match("NEWLINE"): pass; body = self.parse_block()
skip_newlines_then_block(f) ==
    IF match_ok({"NEWLINE"}) THEN advance /\ Goto(Top)
    ELSE stay /\ Invoke(f, block_frame)

parse ==
    \/ /\ lpc = "returned" /\ pstatus = "idle"
       /\ pstatus' = "running"
       /\ stack' = <<[fn |-> "parse", pc |-> "loop", body |-> <<>>]>>
       /\ UNCHANGED <<ppos, ret, program, errtok>>
       /\ UNCHANGED lexVars
    \/ /\ Running("parse")
       /\ LET tok == peek(0) IN
          IF Top.pc = "loop"
          THEN IF tok = None \/ tok.type = "EOF"
               THEN /\ program' = Program(Top.body)
                    /\ pstatus' = "returned"
                    /\ stack' = <<>>
                    /\ UNCHANGED <<ppos, ret, errtok>>
               ELSE stay /\ Invoke([Top EXCEPT !.pc = "append"], statement_frame)
          ELSE stay /\ Goto([Top EXCEPT !.pc = "loop", !.body = Append(@, ret)])
       /\ UNCHANGED lexVars

parse_statement ==
    /\ Running("parse_statement")
    /\ LET tok == peek(0)
       IN  IF tok = None THEN Raise("AttributeError", None)
           ELSE stay /\ Goto(
             IF tok.type = "KEYWORD" /\ ValueEq(tok.value, "def")
               THEN [fn |-> "parse_function", pc |-> "def", name |-> None, args |-> <<>>]
             ELSE IF tok.type = "KEYWORD" /\ ValueEq(tok.value, "return")
               THEN [fn |-> "parse_return", pc |-> "return"]
             ELSE IF tok.type = "KEYWORD" /\ ValueEq(tok.value, "if")
               THEN [fn |-> "parse_if", pc |-> "if", condition |-> None, body |-> <<>>]
             ELSE IF tok.type = "KEYWORD" /\ ValueEq(tok.value, "for")
               THEN [fn |-> "parse_for", pc |-> "for", var |-> None, iterable |-> None]
             ELSE IF tok.type = "KEYWORD" /\ ValueEq(tok.value, "while")
               THEN [fn |-> "parse_while", pc |-> "while", condition |-> None]
             ELSE [fn |-> "parse_assignment_or_expr", pc |-> "start", name |-> None])
    /\ UNCHANGED lexVars

\* one iteration of the parameter loop: the frame and the cursor after it
params_step(f) ==
    LET tok == peek(0)
        isIdent == tok.type = "IDENT"
        f1 == IF isIdent THEN [f EXCEPT !.args = Append(@, tok.value)] ELSE f
        p1 == IF isIdent THEN ppos + 1 ELSE ppos
    IN  IF ValueEq(tok.value, ")") THEN [frame |-> [f EXCEPT !.pc = "rparen"], ppos |-> ppos]
        ELSE IF ValueEq(tok.value, ",") THEN [frame |-> f1, ppos |-> p1 + 1]
        ELSE [frame |-> [f1 EXCEPT !.pc = "rparen"], ppos |-> p1]

parse_function ==
    /\ Running("parse_function")
    /\ CASE Top.pc = "def" -> expect("KEYWORD", [Top EXCEPT !.pc = "name"])
         [] Top.pc = "name" ->
              expect("IDENT", [Top EXCEPT !.pc = "lparen", !.name = peek(0).value])
         [] Top.pc = "lparen" -> expect("DELIM", [Top EXCEPT !.pc = "params"])
         [] Top.pc = "params" ->
              IF peek(0) = None THEN Raise("AttributeError", None)
              ELSE /\ ppos' = params_step(Top).ppos
                   /\ Goto(params_step(Top).frame)
         [] Top.pc = "rparen" -> expect("DELIM", [Top EXCEPT !.pc = "colon"])
         [] Top.pc = "colon" -> expect("DELIM", [Top EXCEPT !.pc = "newlines"])
         [] Top.pc = "newlines" -> skip_newlines_then_block([Top EXCEPT !.pc = "body"])
         [] Top.pc = "body" -> stay /\ ReturnValue(FunctionDef(Top.name, Top.args, ret.v))
    /\ UNCHANGED lexVars

parse_return ==
    /\ Running("parse_return")
    /\ IF Top.pc = "return"
       THEN IF expect_ok("KEYWORD")
            THEN advance /\ Invoke([Top EXCEPT !.pc = "expr"], expr_frame)
            ELSE Raise("SyntaxError", peek(0))
       ELSE stay /\ ReturnValue(Return(ret))
    /\ UNCHANGED lexVars

parse_if ==
    /\ Running("parse_if")
    /\ LET tok == peek(0) IN
       CASE Top.pc = "if" ->
              IF expect_ok("KEYWORD")
              THEN advance /\ Invoke([Top EXCEPT !.pc = "condition"], expr_frame)
              ELSE Raise("SyntaxError", tok)
         [] Top.pc = "condition" ->
              expect("DELIM", [Top EXCEPT !.pc = "newlines", !.condition = ret])
         [] Top.pc = "newlines" -> skip_newlines_then_block([Top EXCEPT !.pc = "body"])
         [] Top.pc = "body" ->
              IF tok # None /\ tok.type = "KEYWORD" /\ ValueEq(tok.value, "else")
              THEN advance /\ Goto([Top EXCEPT !.pc = "else_colon", !.body = ret.v])
              ELSE stay /\ ReturnValue(If(Top.condition, ret.v, <<>>))
         [] Top.pc = "else_colon" -> expect("DELIM", [Top EXCEPT !.pc = "else_newlines"])
         [] Top.pc = "else_newlines" ->
              skip_newlines_then_block([Top EXCEPT !.pc = "orelse"])
         [] Top.pc = "orelse" -> stay /\ ReturnValue(If(Top.condition, Top.body, ret.v))
    /\ UNCHANGED lexVars

parse_for ==
    /\ Running("parse_for")
    /\ CASE Top.pc = "for" -> expect("KEYWORD", [Top EXCEPT !.pc = "var"])
         [] Top.pc = "var" ->
              expect("IDENT", [Top EXCEPT !.pc = "in", !.var = peek(0).value])
         [] Top.pc = "in" ->
              IF expect_ok("KEYWORD")
              THEN advance /\ Invoke([Top EXCEPT !.pc = "iterable"], expr_frame)
              ELSE Raise("SyntaxError", peek(0))
         [] Top.pc = "iterable" ->
              expect("DELIM", [Top EXCEPT !.pc = "newlines", !.iterable = ret])
         [] Top.pc = "newlines" -> skip_newlines_then_block([Top EXCEPT !.pc = "body"])
         [] Top.pc = "body" -> stay /\ ReturnValue(For(Top.var, Top.iterable, ret.v))
    /\ UNCHANGED lexVars

parse_while ==
    /\ Running("parse_while")
    /\ CASE Top.pc = "while" ->
              IF expect_ok("KEYWORD")
              THEN advance /\ Invoke([Top EXCEPT !.pc = "condition"], expr_frame)
              ELSE Raise("SyntaxError", peek(0))
         [] Top.pc = "condition" ->
              expect("DELIM", [Top EXCEPT !.pc = "newlines", !.condition = ret])
         [] Top.pc = "newlines" -> skip_newlines_then_block([Top EXCEPT !.pc = "body"])
         [] Top.pc = "body" -> stay /\ ReturnValue(While(Top.condition, ret.v))
    /\ UNCHANGED lexVars

\* a bug: only a function definition ends a block
block_end_def_only(tok) ==
    /\ tok.type = "KEYWORD"
    /\ ValueEq(tok.value, "def")

\* a bug: a return statement ends a block too
block_end_return_too(tok) ==
    /\ tok.type = "KEYWORD"
    /\ \E w \in {"def", "if", "for", "while", "return"} : ValueEq(tok.value, w)

\* a bug: the keyword else ends a block too
block_end_else_too(tok) ==
    /\ tok.type = "KEYWORD"
    /\ \E w \in {"def", "if", "for", "while", "else"} : ValueEq(tok.value, w)

\* the keywords at which parse_block stops
block_end(tok) ==
    /\ tok.type = "KEYWORD"
    /\ \E w \in {"def", "if", "for", "while"} : ValueEq(tok.value, w)

parse_block ==
    /\ Running("parse_block")
    /\ LET tok == peek(0) IN
       IF Top.pc = "loop"
       THEN IF tok = None THEN stay /\ ReturnValue(ListV(Top.body))
            ELSE IF tok.type = "EOF" THEN stay /\ ReturnValue(ListV(Top.body))
            ELSE IF tok.type = "NEWLINE" THEN advance /\ Goto(Top)
            ELSE IF block_end(tok) THEN stay /\ ReturnValue(ListV(Top.body))
            ELSE stay /\ Invoke([Top EXCEPT !.pc = "append"], statement_frame)
       ELSE stay /\ Goto([Top EXCEPT !.pc = "loop", !.body = Append(@, ret)])
    /\ UNCHANGED lexVars

\* a bug: the target of an assignment need not be an identifier
parse_assignment_or_expr_any_target ==
    /\ Running("parse_assignment_or_expr")
    /\ LET tok == peek(0) IN
       CASE Top.pc = "start" ->
              IF tok = None THEN Raise("AttributeError", None)
              ELSE IF /\ peek(1) # None
                      /\ ValueEq(peek(1).value, "=")
              THEN /\ ppos' = ppos + 2
                   /\ Invoke([Top EXCEPT !.pc = "assign", !.name = tok.value], expr_frame)
              ELSE stay /\ Invoke([Top EXCEPT !.pc = "expr"], expr_frame)
         [] Top.pc = "assign" -> stay /\ ReturnValue(Assign(Top.name, ret))
         [] Top.pc = "expr" -> stay /\ ReturnValue(Expression(ret))
    /\ UNCHANGED lexVars

parse_assignment_or_expr ==
    /\ Running("parse_assignment_or_expr")
    /\ LET tok == peek(0) IN
       CASE Top.pc = "start" ->
              IF tok = None THEN Raise("AttributeError", None)
              ELSE IF /\ tok.type = "IDENT"
                      /\ peek(1) # None
                      /\ ValueEq(peek(1).value, "=")
              THEN /\ ppos' = ppos + 2
                   /\ Invoke([Top EXCEPT !.pc = "assign", !.name = tok.value], expr_frame)
              ELSE stay /\ Invoke([Top EXCEPT !.pc = "expr"], expr_frame)
         [] Top.pc = "assign" -> stay /\ ReturnValue(Assign(Top.name, ret))
         [] Top.pc = "expr" -> stay /\ ReturnValue(Expression(ret))
    /\ UNCHANGED lexVars

parse_expression ==
    /\ Running("parse_expression")
    /\ LET tok == peek(0) IN
       CASE Top.pc = "start" ->
              IF tok = None THEN Raise("AttributeError", None)
              ELSE IF tok.type \in {"NUMBER", "STRING"}
              THEN advance /\ ReturnValue(tok.value)
              ELSE IF tok.type = "IDENT"
              THEN IF peek(1) # None /\ ValueEq(peek(1).value, "(")
                   THEN /\ ppos' = ppos + 2
                        /\ Goto([Top EXCEPT !.pc = "args", !.ident = tok.value])
                   ELSE advance /\ ReturnValue(tok.value)
              ELSE IF tok.type = "DELIM" /\ ValueEq(tok.value, "(")
              THEN advance /\ Invoke([Top EXCEPT !.pc = "paren"], expr_frame)
              ELSE advance /\ ReturnValue(tok.value)
         [] Top.pc = "args" ->
              IF tok = None THEN Raise("AttributeError", None)
              ELSE IF ValueEq(tok.value, ")")
              THEN stay /\ Goto([Top EXCEPT !.pc = "close"])
              ELSE stay /\ Invoke([Top EXCEPT !.pc = "arg"], expr_frame)
         [] Top.pc = "arg" ->
              IF tok = None THEN Raise("AttributeError", None)
              ELSE IF ValueEq(tok.value, ",")
              THEN advance /\ Goto([Top EXCEPT !.pc = "args", !.args = Append(@, ret)])
              ELSE stay /\ Goto([Top EXCEPT !.pc = "close", !.args = Append(@, ret)])
         [] Top.pc = "close" ->
              IF expect_ok("DELIM")
              THEN advance /\ ReturnValue(Call(Top.ident, Top.args))
              ELSE Raise("SyntaxError", tok)
         [] Top.pc = "paren" ->
              IF expect_ok("DELIM") THEN advance /\ ReturnValue(ret)
              ELSE Raise("SyntaxError", tok)
    /\ UNCHANGED lexVars

ParseNext ==
    \/ parse
    \/ parse_statement
    \/ parse_function
    \/ parse_return
    \/ parse_if
    \/ parse_for
    \/ parse_while
    \/ parse_block
    \/ parse_assignment_or_expr
    \/ parse_expression

Next == LexNext \/ ParseNext

(***************************************************************************)
(* Inputs                                                                  *)
(***************************************************************************)
LexAlphabet ==
    {"a", "_", "1", "sup2", ".", "'", "\"", "\\", "\n", "#", " ", "=", "!", "<"}
StrAlphabet == {"n", "t", "r", "x", "'", "\"", "\\", "\n"}

SeqsUpTo(S, n) == UNION {[1..m -> S] : m \in 0..n}

\* every text of at most MaxLen characters of LexAlphabet
Texts == SeqsUpTo(LexAlphabet, MaxLen)
\* an opening quote and at most MaxStrLen characters of a string literal
StrTexts == {<<q>> \o s : q \in {"'", "\""}, s \in SeqsUpTo(StrAlphabet, MaxStrLen)}

\* Lexer.__init__ and Parser.__init__
InitOn(src) ==
    /\ code \in src
    /\ pos = 0
    /\ line = 1
    /\ col = 0
    /\ tokens = <<>>
    /\ lpc = "idle"
    /\ start = 0 /\ start_col = 0 /\ has_dot = FALSE
    /\ quote = NoChar /\ buf = ""
    /\ attr = [i \in 1..Len(code) |-> <<>>]
    /\ passStart = -1
    /\ ppos = 0
    /\ stack = <<>>
    /\ ret = None
    /\ pstatus = "idle"
    /\ program = None
    /\ errtok = None
    /\ again = [tokenize |-> FALSE, parse |-> FALSE]
    /\ first = [tokens |-> <<>>, program |-> None]

InitLex == InitOn(Texts \cup StrTexts)
SpecLex == InitLex /\ [][LexNext]_vars

(***************************************************************************)
(* Inputs of the whole front end: Lexer(code).tokenize(), then             *)
(* Parser(tokens).parse().                                                 *)
(***************************************************************************)
\* the words of the generated texts
Words ==
    {
      \* def
      <<"d", "e", "f">>,
      \* if
      <<"i", "f">>,
      \* return
      <<"r", "e", "t", "u", "r", "n">>,
      \* x
      <<"x">>,
      \* (
      <<"(">>,
      \* )
      <<")">>,
      \* ,
      <<",">>,
      \* :
      <<":">>,
      \* =
      <<"=">>,
      \* \n
      <<"\n">>,
      \* 1
      <<"1">>
    }

\* the lines of the generated texts
Lines ==
    {
      \* def f(a, b):
      <<"d", "e", "f", " ", "f", "(", "a", ",", " ", "b", ")", ":">>,
      \* def f(a):
      <<"d", "e", "f", " ", "f", "(", "a", ")", ":">>,
      \* if a:
      <<"i", "f", " ", "a", ":">>,
      \* while a:
      <<"w", "h", "i", "l", "e", " ", "a", ":">>,
      \* for a in b:
      <<"f", "o", "r", " ", "a", " ", "i", "n", " ", "b", ":">>,
      \* for a as b:
      <<"f", "o", "r", " ", "a", " ", "a", "s", " ", "b", ":">>,
      \* return a
      <<"r", "e", "t", "u", "r", "n", " ", "a">>,
      \* x = 1
      <<"x", " ", "=", " ", "1">>,
      \* f(a, 1)
      <<"f", "(", "a", ",", " ", "1", ")">>,
      \* else:
      <<"e", "l", "s", "e", ":">>,
      \* return
      <<"r", "e", "t", "u", "r", "n">>
    }

\* def add(a, b):\n    return a\n
SrcAdd ==
    <<"d", "e", "f", " ", "a", "d", "d", "(", "a", ",", " ", "b", ")", ":",
      "\n", " ", " ", " ", " ", "r", "e", "t", "u", "r", "n", " ", "a", "\n">>
\* for x in y:\n    z\n
SrcFor ==
    <<"f", "o", "r", " ", "x", " ", "i", "n", " ", "y", ":", "\n", " ",
      " ", " ", " ", "z", "\n">>
\* x = 5
SrcAssign ==
    <<"x", " ", "=", " ", "5">>
\* foo(5)
SrcCall ==
    <<"f", "o", "o", "(", "5", ")">>
\* x = 1 + 2
SrcBinary ==
    <<"x", " ", "=", " ", "1", " ", "+", " ", "2">>
\* if a:\n    b\nwhile c:\n    d\n
SrcIfWhile ==
    <<"i", "f", " ", "a", ":", "\n", " ", " ", " ", " ", "b", "\n", "w",
      "h", "i", "l", "e", " ", "c", ":", "\n", " ", " ", " ", " ", "d", "\n">>
\* if a:\n    b\nelse:\n    c\n
SrcIfElse ==
    <<"i", "f", " ", "a", ":", "\n", " ", " ", " ", " ", "b", "\n", "e",
      "l", "s", "e", ":", "\n", " ", " ", " ", " ", "c", "\n">>
\* def f():\n    return g(1, 'a')\n
SrcReturnCall ==
    <<"d", "e", "f", " ", "f", "(", ")", ":", "\n", " ", " ", " ", " ",
      "r", "e", "t", "u", "r", "n", " ", "g", "(", "1", ",", " ", "'", "a",
      "'", ")", "\n">>
\* x = (1)\nf(\n
SrcOpenCall ==
    <<"x", " ", "=", " ", "(", "1", ")", "\n", "f", "(", "\n">>
\* y = f($, "a\n")
SrcUnknown ==
    <<"y", " ", "=", " ", "f", "(", "$", ",", " ", "\"", "a", "\\", "n", "\"",
      ")">>
\* x = a "(" )
SrcStringParen ==
    <<"x", " ", "=", " ", "a", " ", "\"", "(", "\"", " ", ")">>
\* two blanks and a comment
SrcBlank == <<" ", " ", "#", " ", "c">>
\* if a:\n    return b\nelse:\n    c\nwhile d:\n    e\n
SrcBlockEnds ==
    <<"i", "f", " ", "a", ":", "\n", " ", " ", " ", " ", "r", "e", "t",
      "u", "r", "n", " ", "b", "\n", "e", "l", "s", "e", ":", "\n", " ",
      " ", " ", " ", "c", "\n", "w", "h", "i", "l", "e", " ", "d", ":",
      "\n", " ", " ", " ", " ", "e", "\n">>

Scenarios ==
    {SrcAdd, SrcFor, SrcAssign, SrcCall, SrcBinary,
     SrcIfWhile, SrcIfElse, SrcReturnCall, SrcOpenCall,
     SrcUnknown, SrcStringParen, SrcBlockEnds, SrcBlank}

RECURSIVE join_with(_, _)
\* every element of ws followed by sep
join_with(ws, sep) ==
    IF ws = <<>> THEN <<>> ELSE Head(ws) \o sep \o join_with(Tail(ws), sep)

\* at most MaxWords words, a space after each
WordTexts == {join_with(ws, <<" ">>) : ws \in SeqsUpTo(Words, MaxWords)}
\* at most MaxLines lines, a newline after each
LineTexts == {join_with(ls, <<"\n">>) : ls \in SeqsUpTo(Lines, MaxLines)}

Init == InitOn(WordTexts \cup LineTexts \cup Scenarios)
Spec == Init /\ [][Next]_vars

\* a tokenize() that began by putting the cursor back at the start
tokenize_again_reset ==
    /\ lpc = "returned"
    /\ pstatus = "idle" \/ (pstatus = "returned" /\ again.parse)
    /\ ~again.tokenize
    /\ again' = [again EXCEPT !.tokenize = TRUE]
    /\ first' = [first EXCEPT !.tokens = tokens]
    /\ tokens' = <<>>
    /\ lpc' = "loop"
    /\ pos' = 0 /\ line' = 1 /\ col' = 0
    /\ UNCHANGED <<code, lexLocals, attr, passStart>>
    /\ UNCHANGED <<ppos, stack, ret, pstatus, program, errtok>>

\* a second lexer.tokenize() on a Lexer whose first call returned, before a
\* Parser is built or after the Parser is done: tokens = [] is a new list,
\* pos/line/col are not reset
tokenize_again ==
    /\ lpc = "returned"
    /\ pstatus = "idle" \/ (pstatus = "returned" /\ again.parse)
    /\ ~again.tokenize
    /\ again' = [again EXCEPT !.tokenize = TRUE]
    /\ first' = [first EXCEPT !.tokens = tokens]
    /\ tokens' = <<>>
    /\ lpc' = "loop"
    /\ NoAdvance
    /\ UNCHANGED <<code, lexLocals, passStart>>
    /\ UNCHANGED <<ppos, stack, ret, pstatus, program, errtok>>

\* a second parser.parse() on a Parser whose first call returned a Program:
\* self.pos is not reset
parse_again ==
    /\ pstatus = "returned"
    /\ ~again.parse
    /\ again' = [again EXCEPT !.parse = TRUE]
    /\ first' = [first EXCEPT !.program = program]
    /\ pstatus' = "running"
    /\ stack' = <<[fn |-> "parse", pc |-> "loop", body |-> <<>>]>>
    /\ UNCHANGED <<ppos, ret, program, errtok>>
    /\ UNCHANGED <<code, pos, line, col, tokens, lpc, lexLocals, attr, passStart>>

\* the front end with its Lexer and its Parser used a second time
NextReuse == Next \/ tokenize_again \/ parse_again
SpecReuse == Init /\ [][NextReuse]_vars

\* the front end run to its end: the interpreter takes the next step of
\* tokenize and parse as long as there is one
\* the position of the run: the cursors, the call stack and the status
runVars == <<lpc, pos, ppos, stack, pstatus>>
FairSpec == Init /\ [][Next]_vars /\ WF_runVars(Next)

(***************************************************************************)
(* Properties                                                              *)
(***************************************************************************)
LexOver == lpc = "returned"
LexEnded == lpc \in {"returned", "ValueError"}
ParseOver == pstatus \in {"returned", "SyntaxError", "AttributeError"}

\* the scan that consumed code[i]
owner(i) == attr[i][1]
Newlines == {i \in 1..N : code[i] = "\n"}
TokensOfType(t) == {k \in 1..Len(tokens) : tokens[k].type = t}

IsTok(i, type, val) ==
    i <= Len(tokens) /\ tokens[i].type = type /\ ValueEq(tokens[i].value, val)
IsIdent(i) == i <= Len(tokens) /\ tokens[i].type = "IDENT"

\* the tokens start with  def <name> ( <k names, comma-separated> ) :
DefHeader(k) ==
    LET close == IF k = 0 THEN 4 ELSE 3 + 2 * k
    IN  /\ IsTok(1, "KEYWORD", "def")
        /\ IsIdent(2)
        /\ IsTok(3, "DELIM", "(")
        /\ \A j \in 1..k : IsIdent(2 + 2 * j)
        /\ \A j \in 1..(k - 1) : IsTok(3 + 2 * j, "DELIM", ",")
        /\ IsTok(close, "DELIM", ")")
        /\ IsTok(close + 1, "DELIM", ":")
ParamNames(k) == [j \in 1..k |-> tokens[2 + 2 * j].value]

\* C1: a function definition with k >= 0 comma-separated bare parameter
\* names parses, without raising, to a Program whose first statement is a
\* FunctionDef with that name and exactly those k names as params; the
\* text "def add(a, b):\n    return a\n" parses to
\* Program([FunctionDef(add, [a, b], [Return(a)])]).
C1_FunctionDefParses ==
    /\ \A k \in 0..2 :
         (ParseOver /\ DefHeader(k)) =>
            /\ pstatus = "returned"
            /\ program.body # <<>>
            /\ program.body[1].node = "FunctionDef"
            /\ program.body[1].name = tokens[2].value
            /\ program.body[1].args = ParamNames(k)
    /\ (ParseOver /\ code = SrcAdd) =>
          /\ pstatus = "returned"
          /\ program = Program(<<FunctionDef(StrV("add"),
                                             <<StrV("a"), StrV("b")>>,
                                             <<Return(StrV("a"))>>)>>)

\* the tokens start with  for <name> in <primary> :
ForHeader ==
    /\ IsTok(1, "KEYWORD", "for")
    /\ IsIdent(2)
    /\ Len(tokens) >= 3 /\ ValueEq(tokens[3].value, "in")
    /\ Len(tokens) >= 4 /\ tokens[4].type \in {"IDENT", "NUMBER", "STRING"}
    /\ IsTok(5, "DELIM", ":")

\* C2: a text  for <name> in <primary>:  followed by simple statements
\* parses, without raising, to a Program whose first statement is a For
\* with var = <name> and iter = the iterable: the token of the word `in`
\* is accepted as the membership keyword.
C2_ForLoopParses ==
    (ParseOver /\ ForHeader) =>
        /\ pstatus = "returned"
        /\ program.body # <<>>
        /\ program.body[1].node = "For"
        /\ program.body[1].var = tokens[2].value
        /\ program.body[1].iter = tokens[4].value

\* C3: parse returns a Program or fails with the SyntaxError of expect;
\* no access to the type or value of an absent token is reachable.
C3_OnlySyntaxError == ParseOver => pstatus \in {"returned", "SyntaxError"}

\* C4: tokenize never raises, whatever the text.
C4_TokenizeNeverRaises == lpc # "ValueError"

\* C5: the sequence tokenize returns holds exactly one EOF token, and it
\* is the last element; for the empty text the sequence is that token only.
C5_OneEOFLast ==
    LexOver =>
        /\ TokensOfType("EOF") = {Len(tokens)}
        /\ Len(tokens) >= 1
        /\ (code = <<>> => Len(tokens) = 1)
C5_Witness ==
    /\ LexOver
    /\ Len(tokens) = 3
    /\ tokens[3].type = "EOF"
    /\ pos = N /\ N > 0

\* code[i] was skipped as whitespace or as part of a '#' comment
SkippedChar(i) ==
    \/ code[i] \in {" ", "\t", "\r"}
    \/ \E j \in 1..i :
         /\ code[j] = "#"
         /\ attr[j] = <<0>>
         /\ \A m \in j..i : code[m] # "\n"

\* what holds of the cursor in every state of the scan: it never exceeds
\* N, every pass of the loop of tokenize strictly increases it, it is N
\* when the EOF token is appended, the characters consumed so far are
\* exactly code[0:pos], each consumed once, by a skipped whitespace or
\* comment run or by the scan of a token, emitted or in progress, and the
\* scans of the tokens follow one another
C6_CursorInvariant ==
    /\ pos <= N
    /\ lpc \in {"loop", "eof", "returned"} => pos > passStart
    /\ lpc \in {"eof", "returned"} => pos = N
    /\ \A i \in 1..N : Len(attr[i]) = IF i <= pos THEN 1 ELSE 0
    /\ \A i \in 1..N : i <= pos =>
          \/ owner(i) = 0 /\ SkippedChar(i)
          \/ owner(i) \in 1..ThisToken
    /\ \A i, j \in 1..N :
          (i < j /\ j <= pos /\ owner(i) # 0 /\ owner(j) # 0) =>
              owner(i) <= owner(j)

\* C6: for every text, tokenize consumes each character index exactly
\* once, in increasing order: the cursor never exceeds N, every pass of the
\* loop strictly increases it, it is N when the EOF token is appended, and
\* once tokenize is over every character was consumed once, by the scan of
\* one emitted token or by a skipped whitespace or comment run.
C6_ConsumedExactlyOnce ==
    /\ C6_CursorInvariant
    /\ LexEnded =>
          \A i \in 1..N :
              /\ Len(attr[i]) = 1
              /\ \/ owner(i) = 0 /\ SkippedChar(i)
                 \/ owner(i) \in 1..Len(tokens) /\ tokens[owner(i)].type # "EOF"

\* the newlines of code[0:pos]
NewlinesBefore == {i \in 1..pos : i <= N /\ code[i] = "\n"}
LastNewline == IF NewlinesBefore = {} THEN 0
               ELSE CHOOSE i \in NewlinesBefore : \A j \in NewlinesBefore : j <= i

\* C7: with pos characters consumed, line is 1 plus the number of newlines
\* in code[0:pos] and col is the number of characters consumed since the
\* last consumed newline (pos if there is none).
C7_LineAndCol ==
    /\ line = 1 + Cardinality(NewlinesBefore)
    /\ col = pos - LastNewline
C7_Witness ==
    /\ line = 2
    /\ col = 1
    /\ pos = 3
    /\ code[3] = " "

\* C8 as claimed: the number of NEWLINE tokens is the number of newline
\* characters of the text.
C8_EveryNewlineIsAToken ==
    LexOver => Cardinality(TokensOfType("NEWLINE")) = Cardinality(Newlines)

\* the newlines consumed so far, and those of them a string scan consumed
NewlinesConsumed == {i \in Newlines : i <= pos}
InString(i) ==
    IF owner(i) <= Len(tokens) THEN tokens[owner(i)].type = "STRING"
    ELSE lpc \in {"string_loop", "string_esc"}

\* C8 amended: a newline character is never consumed by a skipped run or
\* a comment: it is consumed by the scan of a string literal or of a
\* NEWLINE token of its own, emitted in the same step; so at every point
\* the number of NEWLINE tokens is the number of newline characters
\* consumed outside string literals, and in the sequence tokenize returns
\* it is the number of newline characters outside string literals.
C8_NewlineOutsideStringIsAToken ==
    /\ \A i \in NewlinesConsumed :
          /\ owner(i) # 0
          /\ InString(i) \/ (owner(i) <= Len(tokens)
                             /\ tokens[owner(i)].type = "NEWLINE")
    /\ \A k \in TokensOfType("NEWLINE") :
          \E i \in NewlinesConsumed :
              \A j \in 1..N : (j <= pos /\ owner(j) = k) <=> j = i
    /\ Cardinality(TokensOfType("NEWLINE")) =
          Cardinality({i \in NewlinesConsumed : ~InString(i)})
    /\ LexOver => NewlinesConsumed = Newlines
C8_Witness ==
    /\ LexOver
    /\ N = 3
    /\ code[1] = "#" /\ code[2] # "\n" /\ code[3] = "\n"
    /\ tokens[1].type = "NEWLINE"

TwoCharOperators ==
    {"==", "!=", "<=", ">=", "+=", "-=", "*=", "/=", "//", "**", "<<", ">>"}

\* C9: when the operator scan starts where the next two characters form a
\* two-character operator, one OP token with that value is emitted and
\* both characters are consumed; otherwise a token the scan emits is an
\* OP of the one character at the cursor.
C9_GreedyOperator ==
    [][lpc = "op" =>
        IF pos + 2 <= N /\ (code[pos + 1] \o code[pos + 2]) \in TwoCharOperators
        THEN /\ tokens' = Append(tokens,
                     Token("OP", StrV(code[pos + 1] \o code[pos + 2]), line, col))
             /\ pos' = pos + 2
        ELSE \/ tokens' = tokens /\ pos' = pos
             \/ /\ tokens' = Append(tokens,
                        Token("OP", StrV(code[pos + 1]), line, col))
                /\ pos' = pos + 1]_vars
C9_Witness ==
    /\ LexOver
    /\ code = <<"=", "=">>
    /\ Len(tokens) = 2
    /\ tokens[1].type = "OP" /\ ValueEq(tokens[1].value, "==")

\* what a backslash followed by c contributes to the value of a string
Escaped(c) ==
    CASE c = "n" -> "\n"
      [] c = "t" -> "\t"
      [] c = "r" -> "\r"
      [] OTHER -> c

RECURSIVE StringValue(_, _)
\* the value of the string literal opened by q, s being the text after q
StringValue(s, q) ==
    IF s = <<>> THEN ""
    ELSE IF s[1] = "\\"
         THEN IF Len(s) = 1 THEN ""
              ELSE Escaped(s[2]) \o StringValue(SubSeq(s, 3, Len(s)), q)
    ELSE IF s[1] = q THEN ""
    ELSE s[1] \o StringValue(Tail(s), q)

\* C10: in the value of a STRING token, a backslash and the character
\* after it contribute the one mapped character (n, t, r: newline, tab,
\* carriage return; any other character: itself, the backslash dropped);
\* an escaped quote does not end the string; a backslash that is the last
\* character of the text contributes nothing and ends the string.
C10_Escapes ==
    (N > 0 /\ code[1] \in {"'", "\""} /\ tokens # <<>>) =>
        /\ tokens[1].type = "STRING"
        /\ tokens[1].value = StrV(StringValue(Tail(code), code[1]))
C10_Witness ==
    /\ LexOver
    /\ code = <<"\"", "\\", "n", "\"">>
    /\ tokens[1].value = StrV("\n")
    /\ Len(tokens) = 2

\* the characters the scan of the k-th token consumed, and the first of them
CharsOf(k) == {i \in 1..N : i <= pos /\ owner(i) = k}
FirstChar(k) == CHOOSE i \in CharsOf(k) : \A j \in CharsOf(k) : i <= j

RECURSIVE Unterminated(_, _)
\* no unescaped quote q in s, the text after an opening quote q
Unterminated(s, q) ==
    IF s = <<>> THEN TRUE
    ELSE IF s[1] = "\\"
         THEN Len(s) = 1 \/ Unterminated(SubSeq(s, 3, Len(s)), q)
    ELSE IF s[1] = q THEN FALSE
    ELSE Unterminated(Tail(s), q)

RECURSIVE Unescape(_)
\* s with every backslash and the character after it replaced by the
\* character they stand for
Unescape(s) ==
    IF s = <<>> THEN ""
    ELSE IF s[1] = "\\"
         THEN IF Len(s) = 1 THEN ""
              ELSE Escaped(s[2]) \o Unescape(SubSeq(s, 3, Len(s)))
    ELSE s[1] \o Unescape(Tail(s))

\* the opening quotes consumed so far that no unescaped quote of the same
\* kind matches: a quote character that is the first character of the scan
\* of a token
OpenQuotes ==
    {i \in 1..N :
        /\ i <= pos
        /\ code[i] \in {"'", "\""}
        /\ owner(i) # 0
        /\ FirstChar(owner(i)) = i
        /\ Unterminated(SubSeq(code, i + 1, N), code[i])}

\* C11: a string whose opening quote is never matched by an unescaped
\* quote of the same kind does not make tokenize fail: the scan runs to
\* the end of the input and emits one STRING token whose value is the
\* escape-processed text from after the opening quote to the end of the
\* input, and the one token that follows it is EOF.
C11_UnterminatedString ==
    \A i \in OpenQuotes :
        LET k == owner(i) IN
        IF k = ThisToken
        THEN lpc \in {"string_loop", "string_esc"}
        ELSE /\ k = Len(tokens) \/ k + 1 = Len(tokens)
             /\ tokens[k].type = "STRING"
             /\ tokens[k].value = StrV(Unescape(SubSeq(code, i + 1, N)))
             /\ pos = N
             /\ lpc \in {"loop", "eof", "returned"}
             /\ lpc = "returned" <=> k + 1 = Len(tokens)
             /\ k + 1 = Len(tokens) => tokens[k + 1].type = "EOF"
C11_Witness ==
    /\ LexOver
    /\ code = <<"'", "\\", "'">>
    /\ Len(tokens) = 2
    /\ tokens[1] = Token("STRING", StrV("'"), 1, 0)
    /\ tokens[2].type = "EOF"

\* the current token is an IDENT and the token after it has the value "="
AtAssignment ==
    /\ peek(0) # None /\ peek(0).type = "IDENT"
    /\ peek(1) # None /\ ValueEq(peek(1).value, "=")

\* what a step of the fallthrough rule does: from its start it consumes
\* the identifier and the "=" and goes on to build an Assign of that
\* identifier, or consumes nothing and goes on to build an Expression,
\* the expression being parsed next in both cases; at its end it returns
\* the Assign or the Expression of the parsed expression
FallthroughStep ==
    (Running("parse_assignment_or_expr") /\ pstatus' = "running") =>
        LET n == Len(stack) IN
        CASE Top.pc = "start" ->
               /\ Len(stack') = n + 1
               /\ stack'[n + 1] = expr_frame
               /\ stack'[n].fn = "parse_assignment_or_expr"
               /\ IF AtAssignment
                  THEN /\ ppos' = ppos + 2
                       /\ stack'[n].pc = "assign"
                       /\ stack'[n].name = peek(0).value
                  ELSE /\ ppos' = ppos
                       /\ stack'[n].pc = "expr"
          [] Top.pc = "assign" ->
               stack' = Below /\ ppos' = ppos /\ ret' = Assign(Top.name, ret)
          [] Top.pc = "expr" ->
               stack' = Below /\ ppos' = ppos /\ ret' = Expression(ret)

\* C13: in the fallthrough statement rule, when the current token is an
\* IDENT and the token after it has the value "=", the parser consumes
\* both and returns Assign(identifier, parsed expression); in every other
\* case it returns Expression(parsed expression).  So "x = 5" parses to
\* Program([Assign("x", 5)]) and "foo(5)" to
\* Program([Expression(Call("foo", [5]))]).
C13_Fallthrough ==
    /\ [][FallthroughStep]_vars
    /\ []((ParseOver /\ code = SrcAssign) =>
             /\ pstatus = "returned"
             /\ program = Program(<<Assign(StrV("x"), IntV(5))>>))
    /\ []((ParseOver /\ code = SrcCall) =>
             /\ pstatus = "returned"
             /\ program =
                  Program(<<Expression(Call(StrV("foo"), <<IntV(5)>>))>>))
C13_Witness ==
    /\ pstatus = "returned"
    /\ code = <<"x", " ", "=", " ", "1", " ">>
    /\ program = Program(<<Assign(StrV("x"), IntV(1))>>)

CompoundNodes == {"FunctionDef", "If", "For", "While"}
SimpleNodes == {"Assign", "Return", "Expression"}
\* the statements of a block are Assign, Return and Expression nodes
SimpleBlock(b) == \A i \in 1..Len(b) : b[i].node \in SimpleNodes
\* the statements held by a statement of Program.body
Nested(s) ==
    IF s.node = "If" THEN s.body \o s.orelse
    ELSE IF s.node \in CompoundNodes THEN s.body
    ELSE <<>>

\* C14: in every Program parse returns, FunctionDef, If, For and While
\* nodes are direct elements of Program.body and never inside the body or
\* orelse of another node; a conditional whose body is followed by a
\* while-loop yields the If and the While as consecutive siblings, the
\* If's body holding only the statements before the `while` keyword.
C14_NoNesting ==
    /\ pstatus = "returned" =>
          \A i \in 1..Len(program.body) :
              /\ program.body[i].node \in CompoundNodes \cup SimpleNodes
              /\ SimpleBlock(Nested(program.body[i]))
    /\ (ParseOver /\ code = SrcIfWhile) =>
          /\ pstatus = "returned"
          /\ program =
               Program(<<If(StrV("a"), <<Expression(StrV("b"))>>, <<>>),
                         While(StrV("c"), <<Expression(StrV("d"))>>)>>)
C14_Witness ==
    /\ pstatus = "returned"
    /\ Len(program.body) = 2
    /\ program.body[1].node = "If"
    /\ Len(program.body[1].body) = 4
    /\ program.body[2].node = "While"

\* the current token is absent, EOF, or one of the keywords def, if, for,
\* while
AtBlockEnd ==
    \/ peek(0) = None
    \/ peek(0).type = "EOF"
    \/ /\ peek(0).type = "KEYWORD"
       /\ peek(0).value \in {StrV("def"), StrV("if"), StrV("for"), StrV("while")}

\* a step of parse_block that does not raise: at the head of its loop it
\* returns its statements, the cursor left where it is, exactly when the
\* current token ends the block; it consumes a NEWLINE and nothing else;
\* at any other token it starts a statement; and it appends the statement
\* parsed
BlockStep ==
    (Running("parse_block") /\ pstatus' = "running") =>
        LET n == Len(stack) IN
        IF Top.pc = "loop"
        THEN IF AtBlockEnd
             THEN stack' = Below /\ ret' = ListV(Top.body) /\ ppos' = ppos
             ELSE IF peek(0).type = "NEWLINE"
             THEN ppos' = ppos + 1 /\ stack' = stack
             ELSE /\ ppos' = ppos
                  /\ Len(stack') = n + 1
                  /\ stack'[n].fn = "parse_block"
                  /\ stack'[n].body = Top.body
        ELSE /\ ppos' = ppos
             /\ Len(stack') = n
             /\ stack'[n].body = Append(Top.body, ret)

SameValue(a, b) == a.k = b.k /\ (a.k \in {"None", "Call"} \/ a.v = b.v)
\* v is the value of a token of one of the types
ValueOfToken(v, types) ==
    \E i \in 1..Len(tokens) :
        tokens[i].type \in types /\ SameValue(tokens[i].value, v)

RECURSIVE ExprOK(_)
\* v is a literal, an identifier name, or a Call of such expressions
ExprOK(v) ==
    IF v.k = "Call"
    THEN /\ ValueOfToken(v.func, {"IDENT"})
         /\ \A i \in 1..Len(v.args) : ExprOK(v.args[i])
    ELSE ValueOfToken(v, {"NUMBER", "STRING", "IDENT"})

RECURSIVE StmtOK(_)
\* every expression value of the statement s is such an expression
StmtOK(s) ==
    CASE s.node \in {"Assign", "Return", "Expression"} -> ExprOK(s.value)
      [] s.node = "FunctionDef" -> \A i \in 1..Len(s.body) : StmtOK(s.body[i])
      [] s.node = "If" ->
           /\ ExprOK(s.condition)
           /\ \A i \in 1..Len(s.body) : StmtOK(s.body[i])
           /\ \A i \in 1..Len(s.orelse) : StmtOK(s.orelse[i])
      [] s.node = "For" ->
           ExprOK(s.iter) /\ \A i \in 1..Len(s.body) : StmtOK(s.body[i])
      [] s.node = "While" ->
           ExprOK(s.condition) /\ \A i \in 1..Len(s.body) : StmtOK(s.body[i])

\* the text is a `return` keyword directly followed by NEWLINE or EOF
BareReturn ==
    /\ Len(tokens) >= 2
    /\ tokens[1].type = "KEYWORD" /\ tokens[1].value = StrV("return")
    /\ tokens[2].type \in {"NEWLINE", "EOF"}

\* C16: in every Program parse returns, every expression value (the value
\* of Assign, Return and Expression, the condition of If and While, the
\* iter of For, each Call argument) is the value of a NUMBER, STRING or
\* IDENT token of the input or a Call node, never the value of a token of
\* another type; and a `return` directly followed by NEWLINE or EOF
\* produces no Return node.
C16_ExpressionValues ==
    pstatus = "returned" =>
        /\ \A i \in 1..Len(program.body) : StmtOK(program.body[i])
        /\ BareReturn =>
              (program.body = <<>> \/ program.body[1].node # "Return")

\* C17: every SyntaxError parse raises carries the actual offending token
\* with its line and column: expect never fails with the current token
\* absent, the EOF token already consumed.
C17_ErrorCarriesToken ==
    pstatus = "SyntaxError" =>
        /\ errtok # None
        /\ errtok \in {tokens[i] : i \in 1..Len(tokens)}

\* the delimiter the grammar requires at the current step: after a
\* function name, after the parameter list, after the header expression of
\* a conditional or loop, after else, closing a call or a parenthesized
\* expression; "" at any other step
RequiredDelim ==
    IF pstatus # "running" \/ stack = <<>> THEN ""
    ELSE CASE Top.fn = "parse_function" /\ Top.pc = "lparen" -> "("
           [] Top.fn = "parse_function" /\ Top.pc = "rparen" -> ")"
           [] Top.fn = "parse_function" /\ Top.pc = "colon" -> ":"
           [] Top.fn = "parse_if" /\ Top.pc \in {"condition", "else_colon"} -> ":"
           [] Top.fn = "parse_for" /\ Top.pc = "iterable" -> ":"
           [] Top.fn = "parse_while" /\ Top.pc = "condition" -> ":"
           [] Top.fn = "parse_expression" /\ Top.pc \in {"close", "paren"} -> ")"
           [] OTHER -> ""
\* the current token is the delimiter d
AtDelim(d) ==
    /\ peek(0) # None
    /\ peek(0).type = "DELIM"
    /\ ValueEq(peek(0).value, d)

\* C18: where the grammar requires `(`, `)` or `:` and the current token
\* is any other token, parse raises the structural error in that step and
\* returns no Program.
C18_MissingDelimiterRaises ==
    [][(RequiredDelim # "" /\ ~AtDelim(RequiredDelim)) =>
          pstatus' = "SyntaxError"]_vars

\* the current token is a NUMBER, a STRING, or an IDENT that the
\* delimiter `(` does not follow
AtPrimary ==
    /\ peek(0) # None
    /\ \/ peek(0).type \in {"NUMBER", "STRING"}
       \/ /\ peek(0).type = "IDENT"
          /\ ~(peek(1) # None /\ peek(1).type = "DELIM"
                              /\ ValueEq(peek(1).value, "("))

\* C19: parse_expression parses primaries only: at a NUMBER or STRING
\* token, or at an IDENT not followed by `(`, it consumes exactly that
\* one token and returns its value, so a following operator and its
\* right-hand operand are left unconsumed; "x = 1 + 2" yields
\* Assign("x", 1) followed by separate statements for `+` and `2`.
C19_PrimariesOnly ==
    /\ [][(Running("parse_expression") /\ Top.pc = "start" /\ AtPrimary) =>
             /\ ppos' = ppos + 1
             /\ stack' = Below
             /\ ret' = peek(0).value
             /\ pstatus' = "running"]_vars
    /\ []((ParseOver /\ code = SrcBinary) =>
             /\ pstatus = "returned"
             /\ program = Program(<<Assign(StrV("x"), IntV(1)),
                                    Expression(StrV("+")),
                                    Expression(IntV(2))>>))

\* the line and col of the lexer when the character code[i] is about to be
\* consumed (i = N + 1: at the end of the text)
NewlinesUpTo(i) == {j \in 1..N : j < i /\ code[j] = "\n"}
LineAt(i) == 1 + Cardinality(NewlinesUpTo(i))
ColAt(i) ==
    IF NewlinesUpTo(i) = {} THEN i - 1
    ELSE i - 1 - (CHOOSE j \in NewlinesUpTo(i) : \A m \in NewlinesUpTo(i) : m <= j)

\* C20: every token tokenize emits reports the position of its own first
\* character: its line and col are the lexer's line and col when that
\* character was about to be consumed (for EOF, at the end of the text);
\* so also for a STRING token whose literal contains newline characters.
C20_TokenPosition ==
    \A k \in 1..Len(tokens) :
        LET i == IF tokens[k].type = "EOF" THEN N + 1 ELSE FirstChar(k)
        IN  /\ tokens[k].line = LineAt(i)
            /\ tokens[k].col = ColAt(i)

\* the current token is the keyword else
AtElse ==
    /\ peek(0) # None
    /\ peek(0).type = "KEYWORD"
    /\ peek(0).value = StrV("else")
\* the steps of parse_if that parse the alternative branch
ElseBranch == {"else_colon", "else_newlines", "orelse"}

ExpressionDepth ==
    Cardinality({i \in 1..Len(stack) : stack[i].fn = "parse_expression"})

\* every statement appended by a loop of parse or parse_block, every
\* parameter and every argument collected so far took at least one token
\* of its own, and so did every nested call of parse_expression
TokensPayForLoops ==
    /\ \A i \in 1..Len(stack) :
          /\ stack[i].fn \in {"parse", "parse_block"} =>
                Len(stack[i].body) <= ppos
          /\ stack[i].fn \in {"parse_function", "parse_expression"} =>
                Len(stack[i].args) < ppos \/ stack[i].args = <<>>
    /\ ExpressionDepth <= ppos + 1
    /\ pstatus = "returned" => Len(program.body) <= ppos

\* C22: on every token sequence tokenize produces, parse terminates: it
\* returns a Program or raises.  Every iteration of the loops of parse, of
\* parse_block, of the parameter loop and of the argument loop consumes a
\* token or leaves the loop, and every nested call of parse_expression
\* comes after a token was consumed.
C22_ParseTerminates ==
    /\ []TokensPayForLoops
    /\ <>(ParseOver \/ lpc = "ValueError")
C22_Witness ==
    /\ pstatus = "returned"
    /\ code = SrcReturnCall
    /\ ppos = Len(tokens) - 1
    /\ Len(program.body) = 1
    /\ Len(program.body[1].body) = 1
    /\ Len(program.body[1].body[1].value.args) = 2

\* the frame at the top of the stack is at a `while self.match("NEWLINE")`
AtMatch ==
    /\ pstatus = "running" /\ stack # <<>>
    /\ Top.fn \in {"parse_function", "parse_if", "parse_for", "parse_while"}
    /\ Top.pc \in {"newlines", "else_newlines"}

\* C23: in every state of a parse the cursor satisfies
\* 0 <= pos <= len(tokens); no step decreases it; a step that raises (a
\* failed expect) and a step whose match fails leave it unchanged; and no
\* step of the parser changes the token list.
C23_CursorMonotone ==
    /\ [](0 <= ppos /\ ppos <= Len(tokens))
    /\ [][/\ ppos' >= ppos
          /\ pstatus # "idle" => tokens' = tokens
          /\ (pstatus = "running" /\ pstatus' \in {"SyntaxError", "AttributeError"})
                => ppos' = ppos
          /\ (AtMatch /\ ~match_ok({"NEWLINE"})) => ppos' = ppos
          /\ (AtMatch /\ match_ok({"NEWLINE"})) => ppos' = ppos + 1]_vars
C23_Witness ==
    /\ pstatus = "SyntaxError"
    /\ 0 < ppos /\ ppos + 1 < Len(tokens)
    /\ errtok = tokens[ppos + 1]
    /\ errtok.type = "IDENT"

\* the second tokenize() call has returned; the second parse() call has
SecondTokens == again.tokenize /\ lpc = "returned"
SecondProgram == again.parse /\ pstatus = "returned"
\* the list holds one token, the EOF token at the Lexer's cursor
EOFOnly == tokens = <<Token("EOF", None, line, col)>>

\* C24 as stated: on a Lexer built from non-empty text whose tokenize() has
\* returned, a second tokenize() returns a list that holds only an EOF token
\* and is not the list the first call returned; a second parse() on a Parser
\* whose parse() has returned a Program returns a Program with an empty body.
C24_Original ==
    /\ (SecondTokens /\ code # <<>>) => (EOFOnly /\ tokens # first.tokens)
    /\ SecondProgram => program = Program(<<>>)

\* C24, amended: a Lexer's and a Parser's cursor is never reset.  A second
\* tokenize() on a Lexer whose tokenize() has returned starts with the cursor
\* at the end of the text and returns a list holding only the EOF token the
\* first call ended with; that list differs from the first call's exactly when
\* the first call found a token other than EOF, which a non-empty text of
\* blanks and comments does not give.  A second parse() on a Parser whose
\* parse() has returned a Program returns a Program with an empty body and
\* leaves the cursor where the first call left it.
C24_SingleUse ==
    /\ [](again.tokenize => pos = N)
    /\ [](SecondTokens =>
            /\ EOFOnly
            /\ tokens = <<first.tokens[Len(first.tokens)]>>
            /\ (tokens # first.tokens) <=> (Len(first.tokens) > 1))
    /\ [](SecondProgram => program = Program(<<>>))
    /\ [][again.parse => ppos' = ppos]_vars

\* the if/else/while text lexed and parsed a second time: the first calls
\* gave nineteen tokens and a Program of an If and a While, the second ones
\* an EOF token and an empty Program
C24_Witness ==
    /\ SecondTokens /\ SecondProgram
    /\ code = SrcBlockEnds
    /\ Len(first.tokens) = 19
    /\ Len(first.program.body) = 2
    /\ first.program.body[1].node = "If"
    /\ EOFOnly
    /\ program = Program(<<>>)

====
